---- MODULE Spec2Model ----
(***************************************************************************)
(* Active-array bookkeeping of pyvista.core.dataset.DataSet: the recorded  *)
(* ActiveArrayInfo of the scalars, vectors and tensors roles, the name of  *)
(* the last active scalars, the point / cell / field array tables and the  *)
(* per-table active attributes of the wrapped VTK object.                  *)
(***************************************************************************)
EXTENDS Integers, Sequences, FiniteSets, TLC

\* ------------------------------------------------------------------------
\* Values
\* ------------------------------------------------------------------------

\* Python's None (an absent name, an absent field).
None == "None"

\* FieldAssociation members.
POINT == "POINT"
CELL == "CELL"
NONE == "NONE"

\* The attribute roles of a vtkDataSetAttributes table.
Roles == {"scalars", "vectors", "tensors"}

\* Outcomes of a call: "ok" or the exception that left it.
\*   ArrayNotFound   = KeyError
\*   InvalidField    = ValueError('Data field (...) not usable')
\*   ActivationError = ValueError('... could not be set as the active ...')
\*   TypeMismatch    = TypeError
\*   NotMatching     = the error of raise_not_matching
OK == "ok"

\* exclude of active_scalars_info
exclude == {"__custom_rgba", "Normals", "vtkOriginalPointIds", "TCoords"}

\* Array names the operations are called with: two user names and a
\* reserved one for the scalars machine, one of each where all three roles
\* run together.
Names == {"a", "b", "Normals"}
RoleNames == {"a", "Normals"}

\* preference arguments
Preferences == {"point", "cell", "field"}

\* Number of components of an array; 0 stands for an array that is not a
\* numeric data array (a string array).
Components == {0, 1, 3}
ScalarComponents == {1}
VectorComponents == {1, 3}
TensorComponents == {0, 1}

\* Largest number of arrays held by the three tables together.
MaxArrays == 2

\* Largest length of an array handed to the dataset.
MaxLen == 3

\* Largest number of layers a caller gives a render window.
MaxLayers == 6

\* Largest number of consecutive add_background_layer calls considered.
MaxCalls == 3

\* Point and cell count of the dataset of Spec.
NPoints == 2
NCells == 1

Array(len, comps) == [len |-> len, comps |-> comps]

\* None where an array is expected (dataset[name] = None).
NoArray == Array(-1, -1)

ActiveArrayInfo(association, name) == [association |-> association, name |-> name]

VARIABLES
    point_arrays,               \* GetPointData(): sequence of [name, arr]
    cell_arrays,                \* GetCellData()
    field_arrays,               \* GetFieldData()
    active_scalars_info_,       \* self._active_scalars_info
    active_vectors_info_,       \* self._active_vectors_info
    active_tensors_info_,       \* self._active_tensors_info
    last_active_scalars_name_,  \* self._last_active_scalars_name
    vtk_active,                 \* active scalars of GetPointData() and GetCellData()
    n_points,                   \* self.n_points
    n_cells,                    \* self.n_cells
    textures,                   \* self._textures
    render_window,              \* a RenderWindow
    compared                    \* two ActiveArrayInfo and the value of self == other

vars == <<point_arrays, cell_arrays, field_arrays, active_scalars_info_,
          active_vectors_info_, active_tensors_info_, last_active_scalars_name_,
          vtk_active, n_points, n_cells, textures, render_window, compared>>

\* The dataset as one value, so that a method is an operator from dataset to
\* dataset; err is the exception raised by the call in progress.
DS == [pt |-> point_arrays, cl |-> cell_arrays, fd |-> field_arrays,
       si |-> active_scalars_info_, vi |-> active_vectors_info_,
       ti |-> active_tensors_info_, last |-> last_active_scalars_name_,
       act |-> vtk_active, np |-> n_points, nc |-> n_cells, tex |-> textures,
       err |-> OK]

\* ------------------------------------------------------------------------
\* Tables (DataSetAttributes over a vtkDataSetAttributes / vtkFieldData)
\* ------------------------------------------------------------------------

\* DataSetAttributes.keys(): the names in insertion order.
keys(t) == [i \in 1..Len(t) |-> t[i].name]

KeySet(t) == {t[i].name : i \in 1..Len(t)}

\* DataSetAttributes.__getitem__ for a name that is present.
GetItem(t, name) == (CHOOSE i \in 1..Len(t) : t[i].name = name)

ArrayOf(t, name) == t[GetItem(t, name)].arr

\* The table of an association.
Table(d, assoc) == IF assoc = POINT THEN d.pt ELSE IF assoc = CELL THEN d.cl ELSE d.fd

WithTable(d, assoc, t) ==
    IF assoc = POINT THEN [d EXCEPT !.pt = t]
    ELSE IF assoc = CELL THEN [d EXCEPT !.cl = t]
    ELSE [d EXCEPT !.fd = t]

\* vtkDataSetAttributes::CheckNumberOfComponents: scalars take any data
\* array, vectors exactly 3 components, tensors at most 9; an array that is
\* not a vtkDataArray is no attribute at all.
Accepts(role, arr) ==
    /\ arr.comps # 0
    /\ role = "vectors" => arr.comps = 3
    /\ role = "tensors" => arr.comps <= 9

\* GetPointData().SetActiveScalars(name) and the like: the status is
\* negative when the table has no such array or rejects it; an absent name
\* (or an unknown one) resets the attribute.
SetActiveStatus(d, assoc, role, name) ==
    IF name = None \/ name \notin KeySet(Table(d, assoc)) THEN -1
    ELSE IF Accepts(role, ArrayOf(Table(d, assoc), name)) THEN 0
    ELSE -1

\* Of the attributes of the VTK tables only the active scalars are kept as
\* state; for vectors and tensors the call is known by its status alone.
SetActiveAttribute(d, assoc, role, name) ==
    IF role # "scalars" THEN d
    ELSE IF name = None \/ name \notin KeySet(Table(d, assoc))
    THEN [d EXCEPT !.act[assoc] = None]
    ELSE IF Accepts(role, ArrayOf(Table(d, assoc), name))
         THEN [d EXCEPT !.act[assoc] = name]
         ELSE d

\* DataSetAttributes.remove: the array leaves the table, and an attribute
\* that pointed at it is reset.
RemoveArray(d, assoc, name) ==
    LET t == Table(d, assoc)
        t2 == SelectSeq(t, LAMBDA e : e.name # name)
        d2 == WithTable(d, assoc, t2)
    IN IF assoc = NONE THEN d2
       ELSE [d2 EXCEPT !.act[assoc] = IF @ = name THEN None ELSE @]

\* vtkFieldData::AddArray: an array of the same name is replaced in place,
\* a new one goes last.
AddArray(t, name, arr) ==
    IF name \in KeySet(t)
    THEN [t EXCEPT ![GetItem(t, name)] = [name |-> name, arr |-> arr]]
    ELSE Append(t, [name |-> name, arr |-> arr])

\* DataSetAttributes.__setitem__ / append: add the array, then make it the
\* active scalars of its table and, when it has three components, the
\* active vectors.  Field data has no attributes.
SetArray(d, assoc, name, arr) ==
    LET d1 == WithTable(d, assoc, AddArray(Table(d, assoc), name, arr))
        d2 == IF assoc = NONE THEN d1
              ELSE [d1 EXCEPT !.act[assoc] =
                       IF @ = name /\ ~Accepts("scalars", arr) THEN None ELSE @]
        d3 == IF assoc = NONE THEN d2 ELSE SetActiveAttribute(d2, assoc, "scalars", name)
    IN IF assoc # NONE /\ arr.comps = 3
       THEN SetActiveAttribute(d3, assoc, "vectors", name)
       ELSE d3

\* DataSetAttributes.clear: remove every array.
RECURSIVE ClearTable(_, _)
ClearTable(d, assoc) ==
    IF Table(d, assoc) = <<>> THEN d
    ELSE ClearTable(RemoveArray(d, assoc, Table(d, assoc)[1].name), assoc)

\* parse_field_choice
parse_field_choice(preference) ==
    IF preference \in {"point", POINT} THEN POINT
    ELSE IF preference \in {"cell", CELL} THEN CELL
    ELSE NONE

\* pyvista.utilities.get_array(mesh, name, preference, info=True): the
\* association of the table holding name, the preferred one when several
\* hold it, otherwise the first of point, cell, field; None when no table
\* holds it.
get_array(d, name, preference) ==
    LET pref == parse_field_choice(preference)
        holders == {a \in {POINT, CELL, NONE} : name \in KeySet(Table(d, a))}
    IN IF holders = {} THEN None
       ELSE IF pref \in holders THEN pref
       ELSE IF POINT \in holders THEN POINT
       ELSE IF CELL \in holders THEN CELL
       ELSE NONE

\* ------------------------------------------------------------------------
\* DataSet methods, as operators from dataset to dataset
\* ------------------------------------------------------------------------

\* first_arr without the exclusion filter: the first array of the table.
first_arr_NoExclude(t) ==
    IF t = <<>> THEN None ELSE t[1].name

\* next((arr for arr in attributes if arr not in exclude), None)
first_arr(t) ==
    LET ok == {i \in 1..Len(t) : t[i].name \notin exclude}
    IN IF ok = {} THEN None
       ELSE t[CHOOSE i \in ok : \A j \in ok : i <= j].name

\* active_scalars_info without the else clause of its for loop: when the
\* scan finds no array the recorded info is left as it was.
active_scalars_info_NoElse(d) ==
    LET name == IF d.si.name \in exclude THEN d.last ELSE d.si.name
        all_arrays == KeySet(d.pt) \cup KeySet(d.cl)
    IN IF name = None \/ name \notin all_arrays
       THEN IF first_arr(d.pt) # None
            THEN SetActiveAttribute([d EXCEPT !.si = ActiveArrayInfo(POINT, first_arr(d.pt))],
                                    POINT, "scalars", first_arr(d.pt))
            ELSE IF first_arr(d.cl) # None
            THEN SetActiveAttribute([d EXCEPT !.si = ActiveArrayInfo(CELL, first_arr(d.cl))],
                                    CELL, "scalars", first_arr(d.cl))
            ELSE d
       ELSE d

\* active_scalars_info that also keeps the last-active name up to date, as
\* set_active_scalars does.
active_scalars_info_TracksLast(d) ==
    LET field == d.si.association
        name == IF d.si.name \in exclude THEN d.last ELSE d.si.name
        all_arrays == KeySet(d.pt) \cup KeySet(d.cl)
        e == [d EXCEPT !.last = d.si.name]
    IN IF name = None \/ name \notin all_arrays
       THEN IF first_arr(e.pt) # None
            THEN SetActiveAttribute([e EXCEPT !.si = ActiveArrayInfo(POINT, first_arr(e.pt))],
                                    POINT, "scalars", first_arr(e.pt))
            ELSE IF first_arr(e.cl) # None
            THEN SetActiveAttribute([e EXCEPT !.si = ActiveArrayInfo(CELL, first_arr(e.cl))],
                                    CELL, "scalars", first_arr(e.cl))
            ELSE [e EXCEPT !.si = ActiveArrayInfo(field, None)]
       ELSE e

\* active_scalars_info that scans the cell arrays before the point arrays.
active_scalars_info_CellFirst(d) ==
    LET field == d.si.association
        name == IF d.si.name \in exclude THEN d.last ELSE d.si.name
        all_arrays == KeySet(d.pt) \cup KeySet(d.cl)
    IN IF name = None \/ name \notin all_arrays
       THEN IF first_arr(d.cl) # None
            THEN SetActiveAttribute([d EXCEPT !.si = ActiveArrayInfo(CELL, first_arr(d.cl))],
                                    CELL, "scalars", first_arr(d.cl))
            ELSE IF first_arr(d.pt) # None
            THEN SetActiveAttribute([d EXCEPT !.si = ActiveArrayInfo(POINT, first_arr(d.pt))],
                                    POINT, "scalars", first_arr(d.pt))
            ELSE [d EXCEPT !.si = ActiveArrayInfo(field, None)]
       ELSE d

\* active_scalars_info whose else clause records the default association.
active_scalars_info_ElsePoint(d) ==
    LET name == IF d.si.name \in exclude THEN d.last ELSE d.si.name
        all_arrays == KeySet(d.pt) \cup KeySet(d.cl)
    IN IF name = None \/ name \notin all_arrays
       THEN IF first_arr(d.pt) # None
            THEN SetActiveAttribute([d EXCEPT !.si = ActiveArrayInfo(POINT, first_arr(d.pt))],
                                    POINT, "scalars", first_arr(d.pt))
            ELSE IF first_arr(d.cl) # None
            THEN SetActiveAttribute([d EXCEPT !.si = ActiveArrayInfo(CELL, first_arr(d.cl))],
                                    CELL, "scalars", first_arr(d.cl))
            ELSE [d EXCEPT !.si = ActiveArrayInfo(POINT, None)]
       ELSE d

\* DataSet.active_scalars_info (property): the value returned is the si
\* field of the result.
active_scalars_info(d) ==
    LET field == d.si.association
        name == IF d.si.name \in exclude THEN d.last ELSE d.si.name
        all_arrays == KeySet(d.pt) \cup KeySet(d.cl)
    IN IF name = None \/ name \notin all_arrays
       THEN IF first_arr(d.pt) # None
            THEN SetActiveAttribute([d EXCEPT !.si = ActiveArrayInfo(POINT, first_arr(d.pt))],
                                    POINT, "scalars", first_arr(d.pt))
            ELSE IF first_arr(d.cl) # None
            THEN SetActiveAttribute([d EXCEPT !.si = ActiveArrayInfo(CELL, first_arr(d.cl))],
                                    CELL, "scalars", first_arr(d.cl))
            ELSE [d EXCEPT !.si = ActiveArrayInfo(field, None)]
       ELSE d

\* set_active_scalars that takes the last-active name from the recorded
\* info without resolving it through active_scalars_info.
set_active_scalars_LastAsRecorded(d, name, preference) ==
    IF name = None
    THEN SetActiveAttribute(SetActiveAttribute(d, CELL, "scalars", None),
                            POINT, "scalars", None)
    ELSE LET field == get_array(d, name, preference)
             d2 == [d EXCEPT !.last = d.si.name]
         IN IF field \notin {POINT, CELL}
            THEN [d2 EXCEPT !.err = "InvalidField"]
            ELSE LET ret == SetActiveStatus(d2, field, "scalars", name)
                     d3 == SetActiveAttribute(d2, field, "scalars", name)
                 IN IF ret < 0
                    THEN [d3 EXCEPT !.err = "ActivationError"]
                    ELSE [d3 EXCEPT !.si = ActiveArrayInfo(field, name)]

\* active_scalars without its except clause: the KeyError of the table
\* reaches the caller.
active_scalars_NoExcept(d) ==
    LET g == active_scalars_info(d)
        field == g.si.association
        name == g.si.name
    IN IF field \notin {POINT, CELL}
       THEN [ds |-> g, arr |-> NoArray, err |-> OK]
       ELSE IF name \in KeySet(Table(g, field))
       THEN [ds |-> g, arr |-> ArrayOf(Table(g, field), name), err |-> OK]
       ELSE [ds |-> g, arr |-> NoArray, err |-> "ArrayNotFound"]

\* DataSet.active_scalars (property): the array of the active scalars, or
\* None (NoArray) when the table of the reported association has no array
\* of the reported name; ds is the dataset as the getter leaves it.
active_scalars(d) ==
    LET g == active_scalars_info(d)
        field == g.si.association
        name == g.si.name
    IN IF field \notin {POINT, CELL}
       THEN [ds |-> g, arr |-> NoArray, err |-> OK]
       ELSE IF name \in KeySet(Table(g, field))
       THEN [ds |-> g, arr |-> ArrayOf(Table(g, field), name), err |-> OK]
       ELSE [ds |-> g, arr |-> NoArray, err |-> OK]

\* DataSet.set_active_scalars
set_active_scalars(d, name, preference) ==
    IF name = None
    THEN SetActiveAttribute(SetActiveAttribute(d, CELL, "scalars", None),
                            POINT, "scalars", None)
    ELSE LET field == get_array(d, name, preference)
             d1 == active_scalars_info(d)
             d2 == [d1 EXCEPT !.last = d1.si.name]
         IN IF field \notin {POINT, CELL}
            THEN [d2 EXCEPT !.err = "InvalidField"]
            ELSE LET ret == SetActiveStatus(d2, field, "scalars", name)
                     d3 == SetActiveAttribute(d2, field, "scalars", name)
                 IN IF ret < 0
                    THEN [d3 EXCEPT !.err = "ActivationError"]
                    ELSE [d3 EXCEPT !.si = ActiveArrayInfo(field, name)]

\* set_active_vectors / set_active_tensors without the test of the field:
\* a field array is activated and recorded like a point or cell array.
set_active_role_AnyField(d, role, info, name, preference) ==
    IF name = None
    THEN [SetActiveAttribute(SetActiveAttribute(d, CELL, role, None), POINT, role, None)
             EXCEPT ![info] = ActiveArrayInfo(POINT, None)]
    ELSE LET field == get_array(d, name, preference)
         IN IF field = None
            THEN [d EXCEPT !.err = "InvalidField"]
            ELSE LET ret == SetActiveStatus(d, field, role, name)
                 IN IF ret < 0
                    THEN [d EXCEPT !.err = "ActivationError"]
                    ELSE [d EXCEPT ![info] = ActiveArrayInfo(field, name)]

\* The body shared by set_active_vectors and set_active_tensors; info is
\* "vi" or "ti", the field the role records its ActiveArrayInfo in.
set_active_role(d, role, info, name, preference) ==
    IF name = None
    THEN [SetActiveAttribute(SetActiveAttribute(d, CELL, role, None), POINT, role, None)
             EXCEPT ![info] = ActiveArrayInfo(POINT, None)]
    ELSE LET field == get_array(d, name, preference)
         IN IF field \notin {POINT, CELL}
            THEN [d EXCEPT !.err = "InvalidField"]
            ELSE LET ret == SetActiveStatus(d, field, role, name)
                     d1 == SetActiveAttribute(d, field, role, name)
                 IN IF ret < 0
                    THEN [d1 EXCEPT !.err = "ActivationError"]
                    ELSE [d1 EXCEPT ![info] = ActiveArrayInfo(field, name)]

\* DataSet.set_active_vectors
set_active_vectors(d, name, preference) ==
    set_active_role(d, "vectors", "vi", name, preference)

\* DataSet.set_active_tensors
set_active_tensors(d, name, preference) ==
    set_active_role(d, "tensors", "ti", name, preference)

\* DataSet.array_names reads active_scalars_name (twice when it finds the
\* name in the list), which resolves the active scalars as a side effect.
array_names_effect(d) ==
    LET d1 == active_scalars_info(d)
    IN IF d1.si.name \in KeySet(d1.fd) \cup KeySet(d1.pt) \cup KeySet(d1.cl)
       THEN active_scalars_info(d1)
       ELSE d1

\* DataSet.array_names: the active scalars' name first, then the field,
\* point and cell names in that order.
array_names(d) ==
    LET d1 == active_scalars_info(d)
        names == keys(d.fd) \o keys(d.pt) \o keys(d.cl)
        hits == {i \in 1..Len(names) : names[i] = d1.si.name}
    IN IF hits = {} THEN names
       ELSE LET k == CHOOSE i \in hits : \A j \in hits : i <= j
            IN <<d1.si.name>> \o SubSeq(names, 1, k - 1) \o SubSeq(names, k + 1, Len(names))

\* active_vectors_info without the adoption of "Normals".
active_vectors_info_NoAdopt(d) ==
    IF d.vi.name = None THEN array_names_effect(d) ELSE d

\* active_vectors_info that leaves the preference of set_active_vectors to
\* the default of set_active_scalars, 'cell'.
active_vectors_info_PrefCell(d) ==
    IF d.vi.name = None
    THEN LET d1 == array_names_effect(d)
         IN IF \E i \in 1..Len(array_names(d)) : array_names(d)[i] = "Normals"
            THEN set_active_vectors(d1, "Normals", "cell")
            ELSE d1
    ELSE d

\* DataSet.active_vectors_info (property): the value returned is the vi
\* field of the result, unless err reports the exception that left it.
active_vectors_info(d) ==
    IF d.vi.name = None
    THEN LET d1 == array_names_effect(d)
         IN IF \E i \in 1..Len(array_names(d)) : array_names(d)[i] = "Normals"
            THEN set_active_vectors(d1, "Normals", "point")
            ELSE d1
    ELSE d

\* active_tensors_info that forgets a recorded array its table no longer
\* holds, as the scalars getter does.
active_tensors_info_Resolving(d) ==
    IF d.ti.name # None /\ d.ti.name \notin KeySet(Table(d, d.ti.association))
    THEN [d EXCEPT !.ti = ActiveArrayInfo(d.ti.association, None)]
    ELSE d

\* DataSet.active_tensors_info (property)
active_tensors_info(d) == d

\* rename_array without the re-activation of the renamed array.
rename_array_NotFollowing(d, old_name, new_name, preference) ==
    LET field == get_array(d, old_name, preference)
        d1 == active_scalars_info(d)
    IN IF field \notin {POINT, CELL, NONE}
       THEN [d1 EXCEPT !.err = "ArrayNotFound"]
       ELSE SetArray(RemoveArray(d1, field, old_name), field, new_name,
                     ArrayOf(Table(d1, field), old_name))

\* rename_array without its final else branch: a name that no table holds
\* is passed over in silence.
rename_array_SilentOnMissing(d, old_name, new_name, preference) ==
    LET field == get_array(d, old_name, preference)
        d1 == active_scalars_info(d)
        was_active == d1.si.name = old_name
    IN IF field \notin {POINT, CELL, NONE}
       THEN d1
       ELSE LET arr == ArrayOf(Table(d1, field), old_name)
                d2 == SetArray(RemoveArray(d1, field, old_name), field, new_name, arr)
            IN IF was_active
               THEN set_active_scalars(d2, new_name, field)
               ELSE d2

\* rename_array that stores the array under the new name without popping
\* the old one.
rename_array_Copying(d, old_name, new_name, preference) ==
    LET field == get_array(d, old_name, preference)
        d1 == active_scalars_info(d)
        was_active == d1.si.name = old_name
    IN IF field \notin {POINT, CELL, NONE}
       THEN [d1 EXCEPT !.err = "ArrayNotFound"]
       ELSE LET arr == ArrayOf(Table(d1, field), old_name)
                d2 == SetArray(d1, field, new_name, arr)
            IN IF was_active
               THEN set_active_scalars(d2, new_name, field)
               ELSE d2

\* DataSet.rename_array
rename_array(d, old_name, new_name, preference) ==
    LET field == get_array(d, old_name, preference)
        d1 == active_scalars_info(d)
        was_active == d1.si.name = old_name
    IN IF field \notin {POINT, CELL, NONE}
       THEN [d1 EXCEPT !.err = "ArrayNotFound"]
       ELSE LET arr == ArrayOf(Table(d1, field), old_name)
                d2 == SetArray(RemoveArray(d1, field, old_name), field, new_name, arr)
            IN IF was_active
               THEN set_active_scalars(d2, new_name, field)
               ELSE d2

\* DataSet.get_array that passes the default preference, 'cell', whatever
\* the caller asked for.
DataSet_get_array_DefaultPreference(d, name, preference) ==
    LET field == get_array(d, name, "cell")
    IN IF field = None
       THEN [arr |-> NoArray, association |-> None, err |-> "ArrayNotFound"]
       ELSE [arr |-> ArrayOf(Table(d, field), name), association |-> field, err |-> OK]

\* DataSet.get_array(name, preference, info=True): get_array with err=True,
\* which raises KeyError for a name that no table holds.
DataSet_get_array(d, name, preference) ==
    LET field == get_array(d, name, preference)
    IN IF field = None
       THEN [arr |-> NoArray, association |-> None, err |-> "ArrayNotFound"]
       ELSE [arr |-> ArrayOf(Table(d, field), name), association |-> field, err |-> OK]

\* DataSet.__getitem__: dataset[name] looks with preference 'cell' (here a
\* preference of None), dataset[name, preference] with the one given; the
\* array alone is returned.
getitem(d, name, preference) ==
    LET r == DataSet_get_array(d, name, IF preference = None THEN "cell" ELSE preference)
    IN [arr |-> r.arr, err |-> r.err]

setitem_CellFirst(d, name, scalars) ==
    IF scalars = NoArray
    THEN [d EXCEPT !.err = "TypeMismatch"]
    ELSE IF scalars.len = d.nc THEN SetArray(d, CELL, name, scalars)
    ELSE IF scalars.len = d.np THEN SetArray(d, POINT, name, scalars)
    ELSE [d EXCEPT !.err = "NotMatching"]

\* DataSet.__setitem__: scalars is None or an array.
setitem(d, name, scalars) ==
    IF scalars = NoArray
    THEN [d EXCEPT !.err = "TypeMismatch"]
    ELSE IF scalars.len = d.np THEN SetArray(d, POINT, name, scalars)
    ELSE IF scalars.len = d.nc THEN SetArray(d, CELL, name, scalars)
    ELSE [d EXCEPT !.err = "NotMatching"]

\* A value a caller hands over where an array is expected: an ndarray, a
\* Python sequence, a Python number or None.
Value(type, len, comps) == [type |-> type, len |-> len, comps |-> comps]

ndarray(arr) == Value("ndarray", arr.len, arr.comps)

PyList(len) == Value("list", len, 1)

PyInt == Value("int", 0, 0)

PyNone == Value("NoneType", -1, -1)

\* np.array(scalars): a sequence becomes a one-dimensional array of its
\* length, a number (or None) an array of no dimension.
np_array(value) ==
    IF value.type \in {"ndarray", "list"}
    THEN [ndim |-> 1, arr |-> Array(value.len, value.comps)]
    ELSE [ndim |-> 0, arr |-> NoArray]

DataSet_setitem_NoneAsScalar(d, name, value) ==
    LET scalars == np_array(value)
    IN IF scalars.ndim = 0
       THEN [d EXCEPT !.err = "IndexError"]
       ELSE setitem(d, name, scalars.arr)

\* DataSet.__setitem__ for any value: None raises TypeError, a value that
\* is not an ndarray goes through np.array, and scalars.shape[0] of an
\* array of no dimension raises IndexError.
DataSet_setitem(d, name, value) ==
    IF value.type = "NoneType"
    THEN setitem(d, name, NoArray)
    ELSE LET scalars == np_array(value)
         IN IF scalars.ndim = 0
            THEN [d EXCEPT !.err = "IndexError"]
            ELSE setitem(d, name, scalars.arr)

\* DataSet.points (setter): anything but an ndarray raises TypeError, an
\* array becomes the points of the mesh.
set_points(d, points) ==
    IF points.type # "ndarray"
    THEN [d EXCEPT !.err = "TypeMismatch"]
    ELSE [d EXCEPT !.np = points.len]

\* DataSet.clear_point_arrays
clear_point_arrays(d) == ClearTable(d, POINT)

\* DataSet.clear_cell_arrays
clear_cell_arrays(d) == ClearTable(d, CELL)

\* DataSet.clear_arrays
clear_arrays(d) == ClearTable(clear_cell_arrays(clear_point_arrays(d)), NONE)

\* ------------------------------------------------------------------------
\* Textures, ActiveArrayInfo comparison, RenderWindow
\* ------------------------------------------------------------------------

\* self._textures = {}: a dictionary from texture names to textures.
NoTextures == [name \in {} |-> None]

\* The names and the images of the textures a caller attaches.
TextureNames == {"t", "u"}
Images == {"earth"}

\* A texture object: its image, and how many times it was copied from the
\* texture the caller built, which tells a copy from its original.
Texture(image) == [image |-> image, copy |-> 0]

\* Texture.copy()
Texture_copy(tex) == [tex EXCEPT !.copy = @ + 1]

\* dataset.textures[name] = texture
set_texture(d, name, texture) ==
    [d EXCEPT !.tex = [n \in DOMAIN d.tex \cup {name} |->
                          IF n = name THEN texture ELSE d.tex[n]]]

\* DataSet.clear_textures
clear_textures(d) == [d EXCEPT !.tex = NoTextures]

copy_meta_from_RecordedInfos(self, ido) ==
    [self |-> [clear_textures(self) EXCEPT
                   !.si = ido.si, !.vi = ido.vi,
                   !.tex = [name \in DOMAIN ido.tex |-> Texture_copy(ido.tex[name])]],
     ido |-> ido,
     err |-> OK]

\* DataSet.copy_meta_from of a dataset ido other than self: the two
\* getters run on ido, with what they record there; when the vectors getter
\* raises, self keeps the scalars info already assigned.
copy_meta_from(self, ido) ==
    LET ido1 == active_scalars_info(ido)
        self1 == [self EXCEPT !.si = ido1.si]
        ido2 == active_vectors_info(ido1)
        self2 == [self1 EXCEPT !.vi = ido2.vi]
        self3 == clear_textures(self2)
    IN IF ido2.err # OK
       THEN [self |-> [self1 EXCEPT !.err = ido2.err],
             ido |-> [ido2 EXCEPT !.err = OK],
             err |-> ido2.err]
       ELSE [self |-> [self3 EXCEPT !.tex =
                          [name \in DOMAIN ido2.tex |-> Texture_copy(ido2.tex[name])]],
             ido |-> ido2,
             err |-> OK]

\* FieldAssociation(...).value
FieldAssociationValue(association) ==
    IF association = POINT THEN 0
    ELSE IF association = CELL THEN 1
    ELSE 2

ActiveArrayInfo_eq_NameOnly(self, other) ==
    self.name = other.name

\* ActiveArrayInfo.__eq__
ActiveArrayInfo_eq(self, other) ==
    /\ self.name = other.name
    /\ FieldAssociationValue(self.association) = FieldAssociationValue(other.association)

\* Two infos before self == other is evaluated.
Uncompared(self, other) ==
    [self |-> self, other |-> other, result |-> FALSE, done |-> FALSE]

\* Two infos together with what self == other gave.
Compared(self, other) ==
    [self |-> self, other |-> other,
     result |-> ActiveArrayInfo_eq(self, other), done |-> TRUE]

\* RenderWindow.__init__: the window has the one layer of a new
\* vtkRenderWindow, no background layer has been added.
RenderWindow(borders, off_screen) ==
    [n_layers |-> 1, had_background_layer |-> FALSE,
     borders |-> borders, off_screen |-> off_screen, full_screen |-> FALSE]

add_background_layer_Always(self) ==
    [self EXCEPT !.n_layers = @ + 1, !.had_background_layer = TRUE]

\* RenderWindow.add_background_layer
add_background_layer(self) ==
    IF self.had_background_layer
    THEN self
    ELSE [self EXCEPT !.n_layers = @ + 1, !.had_background_layer = TRUE]

\* n consecutive calls of add_background_layer.
RECURSIVE add_background_layers(_, _)
add_background_layers(self, n) ==
    IF n = 0 THEN self
    ELSE add_background_layers(add_background_layer(self), n - 1)

\* ------------------------------------------------------------------------
\* The state machine: one action per call on the dataset
\* ------------------------------------------------------------------------

\* The arrays a caller hands to dataset[name] = scalars.
ArraysOf(components) == {Array(l, c) : l \in 1..MaxLen, c \in components}

\* The array a caller stores as field data.
FieldArrays == {Array(MaxLen, 1)}

TotalArrays(d) == Len(d.pt) + Len(d.cl) + Len(d.fd)

\* The call leaves the dataset as d, also when it raised.
Becomes(d) ==
    /\ point_arrays' = d.pt
    /\ cell_arrays' = d.cl
    /\ field_arrays' = d.fd
    /\ active_scalars_info_' = d.si
    /\ active_vectors_info_' = d.vi
    /\ active_tensors_info_' = d.ti
    /\ last_active_scalars_name_' = d.last
    /\ vtk_active' = d.act
    /\ n_points' = d.np
    /\ n_cells' = d.nc
    /\ textures' = d.tex
    /\ UNCHANGED <<render_window, compared>>

\* The tables of d hold no more arrays than the model admits.
Bounded(d) == TotalArrays(d) <= MaxArrays

\* DataSet.__init__ on an empty mesh.
InitDataSet ==
    /\ point_arrays = <<>>
    /\ cell_arrays = <<>>
    /\ field_arrays = <<>>
    /\ last_active_scalars_name_ = None
    /\ active_scalars_info_ = ActiveArrayInfo(POINT, None)
    /\ active_vectors_info_ = ActiveArrayInfo(POINT, None)
    /\ active_tensors_info_ = ActiveArrayInfo(POINT, None)
    /\ vtk_active = [a \in {POINT, CELL} |-> None]
    /\ n_points = NPoints
    /\ n_cells = NCells
    /\ textures = NoTextures

\* A new dataset, beside a new render window and two infos compared.
Init ==
    /\ InitDataSet
    /\ render_window = RenderWindow(TRUE, FALSE)
    /\ compared = Compared(ActiveArrayInfo(POINT, None), ActiveArrayInfo(POINT, None))

GetActiveScalarsInfo ==
    LET d == active_scalars_info(DS)
    IN /\ Bounded(d)
       /\ Becomes(d)

\* dataset.active_scalars
GetActiveScalars ==
    LET r == active_scalars(DS)
    IN /\ r.err = OK
       /\ Bounded(r.ds)
       /\ Becomes(r.ds)

GetActiveVectorsInfo ==
    LET d == active_vectors_info(DS)
    IN /\ Bounded(d)
       /\ Becomes(d)

GetActiveTensorsInfo ==
    LET d == active_tensors_info(DS)
    IN /\ Bounded(d)
       /\ Becomes(d)

SetActiveScalars(names) ==
    \E name \in names \cup {None}, preference \in Preferences :
        LET d == set_active_scalars(DS, name, preference)
        IN /\ Bounded(d)
           /\ Becomes(d)

SetActiveVectors(names) ==
    \E name \in names \cup {None}, preference \in Preferences :
        LET d == set_active_vectors(DS, name, preference)
        IN /\ Bounded(d)
           /\ Becomes(d)

SetActiveTensors(names) ==
    \E name \in names \cup {None}, preference \in Preferences :
        LET d == set_active_tensors(DS, name, preference)
        IN /\ Bounded(d)
           /\ Becomes(d)

RenameArray(names) ==
    \E old_name \in names, new_name \in names, preference \in Preferences :
        LET d == rename_array(DS, old_name, new_name, preference)
        IN /\ Bounded(d)
           /\ Becomes(d)

\* dataset[name] = scalars
SetItem(names, arrays) ==
    \E name \in names, scalars \in arrays \cup {NoArray} :
        LET d == setitem(DS, name, scalars)
        IN /\ Bounded(d)
           /\ Becomes(d)

\* The values a caller hands to dataset[name] = value.
Values ==
    {ndarray(arr) : arr \in ArraysOf(ScalarComponents)}
        \cup {PyList(len) : len \in 1..MaxLen} \cup {PyInt, PyNone}

\* The values a caller assigns to dataset.points: arrays of points, and
\* values that are no arrays.
PointsValues ==
    {Value("ndarray", len, 3) : len \in 1..MaxLen}
        \cup {PyList(len) : len \in 1..MaxLen} \cup {PyInt, PyNone}

\* dataset[name] = value
SetItemValue(names) ==
    \E name \in names, value \in Values :
        LET d == DataSet_setitem(DS, name, value)
        IN /\ Bounded(d)
           /\ Becomes(d)

\* dataset.points = points
SetPoints ==
    \E points \in PointsValues :
        LET d == set_points(DS, points)
        IN /\ Bounded(d)
           /\ Becomes(d)

\* DataSet(): a dataset as __init__ leaves it.
NewDataSet ==
    [pt |-> <<>>, cl |-> <<>>, fd |-> <<>>,
     si |-> ActiveArrayInfo(POINT, None), vi |-> ActiveArrayInfo(POINT, None),
     ti |-> ActiveArrayInfo(POINT, None), last |-> None,
     act |-> [a \in {POINT, CELL} |-> None], np |-> NPoints, nc |-> NCells,
     tex |-> NoTextures, err |-> OK]

\* The datasets a caller hands to copy_meta_from, each built by calls on a
\* new dataset: without arrays; with point scalars not yet resolved by the
\* getter; with resolved scalars and a texture; with cell scalars made
\* active beside point scalars, and two textures; with point normals the
\* vectors getter adopts; with a one-component point array 'Normals', on
\* which the vectors getter raises.
Sources ==
    LET scalars == setitem(NewDataSet, "a", Array(NPoints, 1))
        resolved == set_texture(active_scalars_info(scalars), "t", Texture("earth"))
        both == setitem(scalars, "b", Array(NCells, 1))
        cell == set_texture(set_texture(set_active_scalars(both, "b", "cell"),
                                        "t", Texture("earth")), "u", Texture("earth"))
        normals == set_texture(setitem(scalars, "Normals", Array(NPoints, 3)),
                               "u", Texture("earth"))
        rejected == setitem(NewDataSet, "Normals", Array(NPoints, 1))
    IN {NewDataSet, scalars, resolved, cell, normals, rejected}

\* dataset.textures[name] = texture
SetTexture(names) ==
    \E name \in names, image \in Images :
        LET d == set_texture(DS, name, Texture(image))
        IN /\ Bounded(d)
           /\ Becomes(d)

\* dataset.clear_textures()
ClearTextures ==
    LET d == clear_textures(DS)
    IN /\ Bounded(d)
       /\ Becomes(d)

\* dataset.copy_meta_from(ido)
CopyMetaFrom ==
    \E ido \in Sources :
        LET d == copy_meta_from(DS, ido).self
        IN /\ Bounded(d)
           /\ Becomes(d)

\* dataset.field_arrays[name] = arr
SetFieldArray(names) ==
    \E name \in names, arr \in FieldArrays :
        LET d == SetArray(DS, NONE, name, arr)
        IN /\ Bounded(d)
           /\ Becomes(d)

\* dataset.get_array(name, preference) and dataset[name, preference]: a
\* read, which returns or raises KeyError and leaves the dataset as it is.
GetArray(names) ==
    \E name \in names, preference \in Preferences :
        LET r == DataSet_get_array(DS, name, preference)
        IN /\ r.err \in {OK, "ArrayNotFound"}
           /\ getitem(DS, name, preference).arr = r.arr
           /\ Becomes(DS)

ClearPointArrays ==
    LET d == clear_point_arrays(DS)
    IN /\ Bounded(d)
       /\ Becomes(d)

ClearCellArrays ==
    LET d == clear_cell_arrays(DS)
    IN /\ Bounded(d)
       /\ Becomes(d)

ClearArrays ==
    LET d == clear_arrays(DS)
    IN /\ Bounded(d)
       /\ Becomes(d)

\* All three roles on one dataset.
Next ==
    \/ GetActiveScalarsInfo
    \/ GetActiveVectorsInfo
    \/ GetActiveTensorsInfo
    \/ SetActiveScalars(RoleNames)
    \/ SetActiveVectors(RoleNames)
    \/ SetActiveTensors(RoleNames)
    \/ RenameArray(RoleNames)
    \/ GetArray(RoleNames)
    \/ SetItem(RoleNames, ArraysOf({3}))
    \/ SetFieldArray(RoleNames)
    \/ ClearPointArrays
    \/ ClearCellArrays
    \/ ClearArrays

Spec == Init /\ [][Next]_vars

\* The scalars role alone.
NextScalars ==
    \/ GetActiveScalarsInfo
    \/ GetActiveScalars
    \/ SetActiveScalars(Names)
    \/ RenameArray(Names)
    \/ GetArray(Names)
    \/ SetItem(Names, ArraysOf(ScalarComponents))
    \/ SetFieldArray(Names)
    \/ ClearPointArrays
    \/ ClearCellArrays
    \/ ClearArrays

SpecScalars == Init /\ [][NextScalars]_vars

\* The vectors role alone.
NextVectors ==
    \/ GetActiveVectorsInfo
    \/ SetActiveVectors(RoleNames)
    \/ RenameArray(RoleNames)
    \/ SetItem(RoleNames, ArraysOf(VectorComponents))
    \/ SetFieldArray(RoleNames)
    \/ ClearPointArrays
    \/ ClearCellArrays
    \/ ClearArrays

SpecVectors == Init /\ [][NextVectors]_vars

\* The scalars and tensors roles over tables that also hold arrays the
\* point and cell data reject as attributes.
NextTensors ==
    \/ GetActiveScalarsInfo
    \/ GetActiveTensorsInfo
    \/ SetActiveScalars(RoleNames)
    \/ SetActiveTensors(RoleNames)
    \/ RenameArray(RoleNames)
    \/ SetItem(RoleNames, ArraysOf(TensorComponents))
    \/ SetFieldArray(RoleNames)
    \/ ClearPointArrays
    \/ ClearCellArrays
    \/ ClearArrays

SpecTensors == Init /\ [][NextTensors]_vars

\* Assignment of arrays and other values to the dataset and to its points.
NextSetItem ==
    \/ GetActiveScalarsInfo
    \/ SetItemValue(Names)
    \/ SetPoints
    \/ SetFieldArray(Names)
    \/ ClearArrays

SpecSetItem == Init /\ [][NextSetItem]_vars

\* The meta data of the dataset: recorded infos and textures.
NextMeta ==
    \/ GetActiveScalarsInfo
    \/ SetActiveScalars(RoleNames)
    \/ SetActiveTensors({"a"})
    \/ SetItem(RoleNames, ArraysOf(ScalarComponents))
    \/ SetTexture({"t"})
    \/ ClearTextures
    \/ CopyMetaFrom
    \/ ClearArrays

SpecMeta == Init /\ [][NextMeta]_vars

\* The variables of the dataset.
dataset_vars == <<point_arrays, cell_arrays, field_arrays, active_scalars_info_,
                  active_vectors_info_, active_tensors_info_,
                  last_active_scalars_name_, vtk_active, n_points, n_cells,
                  textures>>

\* The infos a caller compares: every association with every name, the
\* absent one included.
Infos ==
    {ActiveArrayInfo(association, name) :
        association \in {POINT, CELL, NONE}, name \in Names \cup {None}}

InitInfo ==
    /\ InitDataSet
    /\ render_window = RenderWindow(TRUE, FALSE)
    /\ \E self \in Infos, other \in Infos : compared = Uncompared(self, other)

\* self == other
Eq ==
    /\ ~compared.done
    /\ compared' = Compared(compared.self, compared.other)
    /\ UNCHANGED <<dataset_vars, render_window>>

\* The comparison of two ActiveArrayInfo.
NextInfo ==
    \/ Eq

SpecInfo == InitInfo /\ [][NextInfo]_vars

InitRenderWindow ==
    /\ InitDataSet
    /\ compared = Compared(ActiveArrayInfo(POINT, None), ActiveArrayInfo(POINT, None))
    /\ \E borders \in BOOLEAN, off_screen \in BOOLEAN :
           render_window = RenderWindow(borders, off_screen)

\* The call leaves the render window as self.
WindowBecomes(self) ==
    /\ render_window' = self
    /\ UNCHANGED <<dataset_vars, compared>>

\* render_window.add_background_layer()
AddBackgroundLayer ==
    LET self == add_background_layer(render_window)
    IN /\ self.n_layers <= MaxLayers + 1
       /\ WindowBecomes(self)

\* render_window.n_layers = n_layers
SetNLayers ==
    \E n_layers \in 1..MaxLayers :
        WindowBecomes([render_window EXCEPT !.n_layers = n_layers])

\* render_window.full_screen = full_screen
SetFullScreen ==
    \E full_screen \in BOOLEAN :
        WindowBecomes([render_window EXCEPT !.full_screen = full_screen])

\* render_window.borders = borders
SetBorders ==
    \E borders \in BOOLEAN :
        WindowBecomes([render_window EXCEPT !.borders = borders])

\* render_window.off_screen = value
SetOffScreen ==
    \E value \in BOOLEAN :
        WindowBecomes([render_window EXCEPT !.off_screen = value])

\* The render window alone.
NextRenderWindow ==
    \/ AddBackgroundLayer
    \/ SetNLayers
    \/ SetFullScreen
    \/ SetBorders
    \/ SetOffScreen

SpecRenderWindow == InitRenderWindow /\ [][NextRenderWindow]_vars

\* ------------------------------------------------------------------------
\* Properties
\* ------------------------------------------------------------------------

\* The three tables of a dataset.
Tables(d) == <<d.pt, d.cl, d.fd>>

\* The info names no array, or an array of the table of its association.
InfoValid(d, info) ==
    \/ info.name = None
    \/ /\ info.association \in {POINT, CELL}
       /\ info.name \in KeySet(Table(d, info.association))

\* C1: in every reachable state the info returned by each of the three
\* getters has name absent or names an array that exists in the table of
\* the returned association.
C1_ReturnedInfoNamesExistingArray ==
    LET s == active_scalars_info(DS)
        v == active_vectors_info(DS)
        t == active_tensors_info(DS)
    IN /\ InfoValid(s, s.si)
       /\ v.err = OK => InfoValid(v, v.vi)
       /\ InfoValid(t, t.ti)

C3_RenameKeepsActive ==
    \A old_name \in Names, new_name \in Names, preference \in Preferences :
        LET g == active_scalars_info(DS)
            r == rename_array(g, old_name, new_name, preference)
        IN (g.si.name = old_name /\ r.err = OK)
           => active_scalars_info(r).si.name = new_name

\* C3 as amended: if get_active_scalars_info reports old and
\* rename_array(old, new, preference) succeeds, the next
\* get_active_scalars_info reports new when new is not a reserved name; a
\* reserved new is reported exactly when the last-active name recorded by
\* the rename is an array of the point or cell table.
C3_RenameKeepsActiveUnlessReserved ==
    \A old_name \in Names, new_name \in Names, preference \in Preferences :
        LET g == active_scalars_info(DS)
            r == rename_array(g, old_name, new_name, preference)
            n == active_scalars_info(r).si.name
        IN (g.si.name = old_name /\ r.err = OK)
           => IF new_name \notin exclude THEN n = new_name
              ELSE (n = new_name <=> r.last \in KeySet(r.pt) \cup KeySet(r.cl))

\* C3 witness: "a" is the active point scalars and also a cell array; the
\* rename with preference cell succeeds and "b" is reported.
C3_Witness ==
    /\ active_scalars_info_ = ActiveArrayInfo(POINT, "a")
    /\ "a" \in KeySet(point_arrays) /\ "a" \in KeySet(cell_arrays)
    /\ rename_array(DS, "a", "b", "cell").err = OK
    /\ active_scalars_info(rename_array(DS, "a", "b", "cell")).si.name = "b"

\* C4: rename_array of a name that no table holds fails with ArrayNotFound
\* and leaves the three tables as they were.
C4_RenameMissingFails ==
    \A old_name \in Names, new_name \in Names, preference \in Preferences :
        LET r == rename_array(DS, old_name, new_name, preference)
        IN old_name \notin KeySet(point_arrays) \cup KeySet(cell_arrays) \cup KeySet(field_arrays)
           => /\ r.err = "ArrayNotFound"
              /\ Tables(r) = Tables(DS)

\* C4 witness: every table holds an array, none of them the name "b", and
\* renaming "b" raises.
C4_Witness ==
    /\ point_arrays # <<>> /\ cell_arrays # <<>>
    /\ "b" \notin KeySet(point_arrays) \cup KeySet(cell_arrays) \cup KeySet(field_arrays)
    /\ rename_array(DS, "b", "a", "point").err = "ArrayNotFound"

\* C5: when the point table holds a non-reserved array, get_active_scalars_info
\* after set_active_scalars(None) returns (POINT, first non-reserved point
\* array), whatever was recorded before.
C5_ClearThenGetAdoptsFirstPointArray ==
    \A preference \in Preferences :
        LET d == active_scalars_info(set_active_scalars(DS, None, preference))
        IN first_arr(point_arrays) # None
           => d.si = ActiveArrayInfo(POINT, first_arr(point_arrays))

\* C6: a second get_active_scalars_info right after a first returns the
\* same info and changes neither the recorded info, the last-active name
\* nor the active scalars of the point and cell data.
C6_GetActiveScalarsInfoIdempotent ==
    LET g1 == active_scalars_info(DS)
        g2 == active_scalars_info(g1)
    IN /\ g2.si = g1.si
       /\ g2.last = g1.last
       /\ g2.act = g1.act
       /\ g2.err = OK

\* C6 witness: the recorded name is stale, so that the first call resolves
\* another array and changes the recorded info.
C6_Witness ==
    /\ active_scalars_info_.name # None
    /\ active_scalars_info_.name \notin KeySet(point_arrays) \cup KeySet(cell_arrays)
    /\ active_scalars_info(DS).si.name # None
    /\ active_scalars_info(DS).act # vtk_active

\* Every array of the point and cell tables has a reserved name.
OnlyReserved == KeySet(point_arrays) \cup KeySet(cell_arrays) \subseteq exclude

PointNormalsAccepted ==
    /\ "Normals" \in KeySet(point_arrays)
    /\ Accepts("vectors", ArrayOf(point_arrays, "Normals"))

C9_PointNormalsAdopted ==
    LET g == active_vectors_info(DS)
    IN (active_vectors_info_.name = None /\ "Normals" \in KeySet(point_arrays))
       => g.err = OK /\ g.vi = ActiveArrayInfo(POINT, "Normals")

\* C9 as amended: when the recorded active-vectors name is absent and the
\* point table holds "Normals", get_active_vectors_info returns and records
\* (POINT, "Normals") if the point data accept the array as vectors,
\* whatever the cell and field tables hold; if they reject it the call
\* fails with ActivationError and the recorded info is unchanged.
C9_PointNormalsAdoptedWhenAccepted ==
    LET g == active_vectors_info(DS)
    IN (active_vectors_info_.name = None /\ "Normals" \in KeySet(point_arrays))
       => IF PointNormalsAccepted
          THEN g.err = OK /\ g.vi = ActiveArrayInfo(POINT, "Normals")
          ELSE g.err = "ActivationError" /\ g.vi = active_vectors_info_

\* C9 witness: no active vectors are recorded and both the point and the
\* cell table hold "Normals".
C9_Witness ==
    /\ active_vectors_info_.name = None
    /\ PointNormalsAccepted
    /\ "Normals" \in KeySet(cell_arrays)
    /\ active_vectors_info(DS).vi = ActiveArrayInfo(POINT, "Normals")

\* C10: when the recorded active-vectors name is not absent, or the point
\* table holds no "Normals", get_active_vectors_info returns the recorded
\* info unchanged and does not fail.
C10_OtherwiseRecordedInfoUnchanged ==
    LET g == active_vectors_info(DS)
    IN (active_vectors_info_.name # None \/ "Normals" \notin KeySet(point_arrays))
       => g.err = OK /\ g.vi = active_vectors_info_

\* The name get_active_scalars_info looks for: the recorded name, or the
\* last-active name when the recorded one is reserved.
ResolvedName ==
    IF active_scalars_info_.name \in exclude
    THEN last_active_scalars_name_
    ELSE active_scalars_info_.name

\* The resolved name is absent or in neither the point nor the cell table.
ResolvedNameStale ==
    \/ ResolvedName = None
    \/ ResolvedName \notin KeySet(point_arrays) \cup KeySet(cell_arrays)

\* n is the first name of table t, in iteration order, that is not reserved.
FirstNonReserved(t, n) ==
    \E i \in 1..Len(t) :
        /\ t[i].name = n
        /\ n \notin exclude
        /\ \A j \in 1..(i - 1) : t[j].name \in exclude

HasNonReserved(t) == \E i \in 1..Len(t) : t[i].name \notin exclude

\* C11: when the recorded active-scalars name is reserved and the
\* last-active name is a non-reserved array of the point or cell table,
\* get_active_scalars_info returns info whose name is the last-active name.
C11_ReservedNameSubstituted ==
    (/\ active_scalars_info_.name \in exclude
     /\ last_active_scalars_name_ \notin exclude
     /\ last_active_scalars_name_ \in KeySet(point_arrays) \cup KeySet(cell_arrays))
    => active_scalars_info(DS).si.name = last_active_scalars_name_

\* C12: when the name get_active_scalars_info resolves is absent or in
\* neither the point nor the cell table, the result is the first
\* non-reserved point array if there is one, otherwise the first
\* non-reserved cell array, with the association of its table; it is stored
\* as the recorded info and as the active scalars of that table.
C12_FallbackScanPicksFirstNonReserved ==
    LET g == active_scalars_info(DS)
    IN ResolvedNameStale
       => /\ HasNonReserved(point_arrays)
             => /\ g.si.association = POINT
                /\ FirstNonReserved(point_arrays, g.si.name)
                /\ g.act[POINT] = g.si.name
          /\ (~HasNonReserved(point_arrays) /\ HasNonReserved(cell_arrays))
             => /\ g.si.association = CELL
                /\ FirstNonReserved(cell_arrays, g.si.name)
                /\ g.act[CELL] = g.si.name

\* C12 witness: the point table holds a reserved array before a user array,
\* nothing is recorded, and the scan records the second array.
C12_Witness ==
    /\ Len(point_arrays) = 2
    /\ point_arrays[1].name \in exclude
    /\ cell_arrays = <<>>
    /\ ResolvedNameStale
    /\ active_scalars_info(DS).si = ActiveArrayInfo(POINT, point_arrays[2].name)
    /\ active_scalars_info(DS).act[POINT] = point_arrays[2].name

\* C13: when the fallback scan finds no non-reserved array in the point and
\* cell tables, get_active_scalars_info returns name absent with the
\* association recorded before the call and raises nothing.
C13_EmptyScanKeepsAssociation ==
    LET g == active_scalars_info(DS)
    IN (/\ ResolvedNameStale
        /\ ~HasNonReserved(point_arrays)
        /\ ~HasNonReserved(cell_arrays))
       => /\ g.si = ActiveArrayInfo(active_scalars_info_.association, None)
          /\ g.err = OK

\* C13 witness: a cell array was the recorded active scalars and is gone;
\* only a reserved point array is left.
C13_Witness ==
    /\ active_scalars_info_.association = CELL
    /\ active_scalars_info_.name # None
    /\ point_arrays # <<>> /\ ~HasNonReserved(point_arrays)
    /\ cell_arrays = <<>>
    /\ ResolvedNameStale
    /\ active_scalars_info(DS).si = ActiveArrayInfo(CELL, None)

\* The table a preference names.
PreferredTable(preference) ==
    IF preference = "point" THEN POINT
    ELSE IF preference = "cell" THEN CELL
    ELSE NONE

\* The tables that hold name.
Holders(name) == {a \in {POINT, CELL, NONE} : name \in KeySet(Table(DS, a))}

\* What a lookup returns for name found in table a.
Found(a, name) == [arr |-> ArrayOf(Table(DS, a), name), association |-> a, err |-> OK]

\* C14: dataset.get_array(name, preference) on a name held by more than one
\* table, the preferred one among them, returns the array and association
\* of the preferred table; on a name held by exactly one table it returns
\* that table's array and association whatever the preference.
C14_LookupHonoursPreference ==
    \A name \in Names, preference \in Preferences :
        LET r == DataSet_get_array(DS, name, preference)
        IN /\ (Cardinality(Holders(name)) > 1 /\ PreferredTable(preference) \in Holders(name))
              => r = Found(PreferredTable(preference), name)
           /\ \A a \in {POINT, CELL, NONE} :
                  Holders(name) = {a} => r = Found(a, name)

\* C14 witness: "a" is an array of both the point and the cell table, of
\* different lengths, and each preference returns its own table's array.
C14_Witness ==
    /\ "a" \in KeySet(point_arrays) /\ "a" \in KeySet(cell_arrays)
    /\ ArrayOf(point_arrays, "a") # ArrayOf(cell_arrays, "a")
    /\ DataSet_get_array(DS, "a", "cell") = Found(CELL, "a")
    /\ DataSet_get_array(DS, "a", "point") = Found(POINT, "a")

\* C15: set_active_scalars with a name that none of the three tables holds
\* fails with ArrayNotFound, which is not the InvalidField of a field-only
\* name.
C15_SetActiveScalarsMissingName ==
    \A name \in Names, preference \in Preferences :
        Holders(name) = {}
        => set_active_scalars(DS, name, preference).err = "ArrayNotFound"

\* The name resolves to the field table: only the field table holds it, or
\* the field table holds it and is the preferred one.
ResolvesToField(name, preference) ==
    /\ NONE \in Holders(name)
    /\ Holders(name) = {NONE} \/ preference = "field"

C18_SetActiveScalarsRecords ==
    \A name \in Names, preference \in Preferences :
        LET r == set_active_scalars(DS, name, preference)
        IN r.err = OK
           => /\ r.si = ActiveArrayInfo(DataSet_get_array(DS, name, preference).association, name)
              /\ r.last = active_scalars_info(DS).si.name

\* C18 witness: the recorded active scalars are gone, so that the getter
\* reports another array than the recorded one before "b", a cell array, is
\* made active.
C18_Witness ==
    /\ active_scalars_info_.name # None
    /\ active_scalars_info(DS).si.name \notin {None, active_scalars_info_.name, "b"}
    /\ Holders("b") = {CELL}
    /\ set_active_scalars(DS, "b", "point").err = OK
    /\ set_active_scalars(DS, "b", "point").si = ActiveArrayInfo(CELL, "b")
    /\ set_active_scalars(DS, "b", "point").last = active_scalars_info(DS).si.name

\* C19: the setters and getters of the vectors and tensors never change the
\* recorded active-scalars info or the last-active scalars name, and the
\* setter and getter of the scalars never change the recorded vectors or
\* tensors info.
C19_RolesIndependent ==
    /\ \A name \in RoleNames \cup {None}, preference \in Preferences :
          /\ set_active_vectors(DS, name, preference).si = active_scalars_info_
          /\ set_active_vectors(DS, name, preference).last = last_active_scalars_name_
          /\ set_active_tensors(DS, name, preference).si = active_scalars_info_
          /\ set_active_tensors(DS, name, preference).last = last_active_scalars_name_
          /\ set_active_scalars(DS, name, preference).vi = active_vectors_info_
          /\ set_active_scalars(DS, name, preference).ti = active_tensors_info_
    /\ active_scalars_info(DS).vi = active_vectors_info_
    /\ active_scalars_info(DS).ti = active_tensors_info_
    /\ active_tensors_info(DS).si = active_scalars_info_
    /\ active_tensors_info(DS).last = last_active_scalars_name_
    /\ active_vectors_info(DS).si = active_scalars_info_
    /\ active_vectors_info(DS).last = last_active_scalars_name_

\* C17: when the table rejects the activation in set_active_scalars, the
\* call fails with ActivationError and the recorded active-scalars info, the
\* last-active name and the active scalars of the point and cell data are
\* as before the call.
C17_RejectedActivationChangesNothing ==
    \A name \in RoleNames, preference \in Preferences :
        LET field == get_array(DS, name, preference)
            r == set_active_scalars(DS, name, preference)
        IN (field \in {POINT, CELL} /\ SetActiveStatus(DS, field, "scalars", name) < 0)
           => /\ r.err = "ActivationError"
              /\ r.si = active_scalars_info_
              /\ r.last = last_active_scalars_name_
              /\ r.act = vtk_active

\* A step changes the recorded tensors info only as a successful
\* set_active_tensors records it.
TensorsInfoSetBySetter ==
    active_tensors_info_' # active_tensors_info_
    => \E name \in RoleNames \cup {None}, preference \in Preferences :
           LET r == set_active_tensors(DS, name, preference)
           IN r.err = OK /\ r.ti = active_tensors_info_'

\* C20: get_active_tensors_info returns the recorded info and changes
\* nothing of the dataset, and the recorded info is the initial (POINT,
\* absent) until a successful set_active_tensors replaces it.
C20_TensorsGetterPure ==
    /\ active_tensors_info_ = ActiveArrayInfo(POINT, None)
    /\ [](active_tensors_info(DS) = DS)
    /\ [][TensorsInfoSetBySetter]_vars

\* C20 witness: the array recorded as active tensors has left its table, and
\* the getter still returns the recorded info.
C20_Witness ==
    /\ active_tensors_info_.name # None
    /\ active_tensors_info_.name \notin KeySet(Table(DS, active_tensors_info_.association))
    /\ active_tensors_info(DS).ti = active_tensors_info_
    /\ active_tensors_info(DS) = DS

\* C21: after a successful rename_array(old, new, preference) with new
\* different from old, the table resolved for old maps new to the array it
\* held under old and no longer holds old; the other two tables are as
\* before.
C21_RenameMovesWithinTable ==
    \A old_name \in Names, new_name \in Names, preference \in Preferences :
        LET field == DataSet_get_array(DS, old_name, preference).association
            r == rename_array(DS, old_name, new_name, preference)
        IN (new_name # old_name /\ Holders(old_name) # {} /\ r.err = OK)
           => /\ new_name \in KeySet(Table(r, field))
              /\ ArrayOf(Table(r, field), new_name) = ArrayOf(Table(DS, field), old_name)
              /\ old_name \notin KeySet(Table(r, field))
              /\ \A other \in {POINT, CELL, NONE} \ {field} :
                     Table(r, other) = Table(DS, other)

\* C21 witness: "a" is a point array and a cell array of different lengths,
\* "b" is in neither table, and the rename with preference cell moves the
\* cell array only.
C21_Witness ==
    /\ Holders("a") = {POINT, CELL}
    /\ Holders("b") = {}
    /\ rename_array(DS, "a", "b", "cell").err = OK
    /\ ArrayOf(rename_array(DS, "a", "b", "cell").cl, "b") = ArrayOf(cell_arrays, "a")
    /\ rename_array(DS, "a", "b", "cell").pt = point_arrays

\* C27: rename_array changes the active scalars only when the array it
\* renames is the active one: with (POINT, old) the active scalars and old
\* also a cell array, a successful rename with preference cell, which
\* resolves to the cell array, leaves an array of the POINT association
\* reported by get_active_scalars_info.
C27_RenameOfCellArrayKeepsPointActive ==
    \A old_name \in Names, new_name \in Names :
        LET g == active_scalars_info(DS)
            r == rename_array(DS, old_name, new_name, "cell")
        IN (/\ g.si = ActiveArrayInfo(POINT, old_name)
            /\ old_name \in KeySet(cell_arrays)
            /\ new_name # old_name
            /\ r.err = OK)
           => active_scalars_info(r).si.association = POINT

\* How many times name occurs in the list names.
Count(names, name) == Cardinality({i \in 1..Len(names) : names[i] = name})

\* C24: whenever get_active_scalars_info reports a name that is not absent,
\* array_names returns a list that starts with that name and is a
\* reordering of the field, point and cell names: none added, none
\* dropped.
C24_ArrayNamesStartWithActive ==
    LET g == active_scalars_info(DS)
        names == array_names(DS)
        all == keys(field_arrays) \o keys(point_arrays) \o keys(cell_arrays)
    IN g.si.name # None
       => /\ names # <<>>
          /\ names[1] = g.si.name
          /\ Len(names) = Len(all)
          /\ \A name \in Names : Count(names, name) = Count(all, name)

\* The dataset after clear_arrays, or after clear_point_arrays and
\* clear_cell_arrays in either order.
Cleared ==
    {clear_arrays(DS),
     clear_cell_arrays(clear_point_arrays(DS)),
     clear_point_arrays(clear_cell_arrays(DS))}

\* C28: after clear_arrays, or clear_point_arrays and clear_cell_arrays,
\* get_active_scalars_info returns name absent whatever was recorded, and
\* active_scalars returns None and raises nothing.
C28_ClearedDatasetHasNoActiveScalars ==
    \A c \in Cleared :
        /\ c.err = OK
        /\ active_scalars_info(c).si.name = None
        /\ active_scalars_info(c).err = OK
        /\ active_scalars(c).arr = NoArray
        /\ active_scalars(c).err = OK

\* C28 witness: the recorded active scalars are a cell array that exists,
\* a field array exists too, and after the clear nothing is reported.
C28_Witness ==
    /\ active_scalars_info_.association = CELL
    /\ active_scalars_info_.name \in KeySet(cell_arrays)
    /\ active_scalars(DS).arr = ArrayOf(cell_arrays, active_scalars_info_.name)
    /\ field_arrays # <<>>
    /\ active_scalars_info(clear_arrays(DS)).si = ActiveArrayInfo(CELL, None)
    /\ active_scalars(clear_arrays(DS)).arr = NoArray

\* Failed(d, err): the call raised err and left every table, every recorded
\* info and the point count as they were.
Failed(d, err) == d = [DS EXCEPT !.err = err]

NonArrays == {PyList(len) : len \in 1..MaxLen} \cup {PyInt, PyNone}

\* C22 as stated: supplying a non-array value where an array is required
\* (dataset[name] = value, or assigning points) fails with TypeMismatch and
\* mutates no table and no recorded active info.
C22_NonArrayValueIsTypeMismatch ==
    \A value \in NonArrays :
        /\ \A name \in Names : Failed(DataSet_setitem(DS, name, value), "TypeMismatch")
        /\ Failed(set_points(DS, value), "TypeMismatch")

\* C22 amended: dataset[name] = None, and assigning to points a value that
\* is not an array, fail with TypeMismatch and mutate nothing; any other
\* non-array value of dataset[name] = value is first converted by np.array,
\* so a sequence is stored as the array of its length would be and a number
\* fails with IndexError, again mutating nothing.
C22_NoneOrNonArrayPointsIsTypeMismatch ==
    /\ \A value \in NonArrays : Failed(set_points(DS, value), "TypeMismatch")
    /\ \A name \in Names :
        /\ Failed(DataSet_setitem(DS, name, PyNone), "TypeMismatch")
        /\ Failed(DataSet_setitem(DS, name, PyInt), "IndexError")
        /\ \A len \in 1..MaxLen :
               DataSet_setitem(DS, name, PyList(len))
                   = DataSet_setitem(DS, name, ndarray(Array(len, 1)))

\* A dataset with arrays and resolved active scalars refuses None, and its
\* points refuse a sequence, while the sequence is stored as an array.
C22_Witness ==
    /\ point_arrays # <<>>
    /\ cell_arrays # <<>>
    /\ active_scalars_info_.name # None
    /\ DataSet_setitem(DS, "a", PyNone).err = "TypeMismatch"
    /\ set_points(DS, PyList(n_points)).err = "TypeMismatch"
    /\ DataSet_setitem(DS, "a", PyList(n_points)).err = OK
    /\ ArrayOf(DataSet_setitem(DS, "a", PyList(n_points)).pt, "a") = Array(n_points, 1)

\* C30: dataset[name] = array stores the array in the point table when its
\* length equals the point count (also when the cell count is the same), else
\* in the cell table when its length equals the cell count, and else fails
\* without adding the array to any table; the field table is never written.
C30_SetItemChoosesTableByLength ==
    \A name \in Names, arr \in ArraysOf(ScalarComponents) :
        LET r == DataSet_setitem(DS, name, ndarray(arr))
        IN /\ r.fd = field_arrays
           /\ arr.len = n_points
                => /\ r.err = OK
                   /\ name \in KeySet(r.pt)
                   /\ ArrayOf(r.pt, name) = arr
                   /\ r.cl = cell_arrays
           /\ (arr.len # n_points /\ arr.len = n_cells)
                => /\ r.err = OK
                   /\ name \in KeySet(r.cl)
                   /\ ArrayOf(r.cl, name) = arr
                   /\ r.pt = point_arrays
           /\ (arr.len # n_points /\ arr.len # n_cells)
                => /\ r.err = "NotMatching"
                   /\ r.pt = point_arrays
                   /\ r.cl = cell_arrays

\* The point count equals the cell count, the cell table already holds the
\* name, and the array of that length goes to the point table.
C30_Witness ==
    /\ n_points = n_cells
    /\ "a" \in KeySet(cell_arrays)
    /\ "a" \notin KeySet(point_arrays)
    /\ "a" \in KeySet(DataSet_setitem(DS, "a", ndarray(Array(n_points, 1))).pt)
    /\ DataSet_setitem(DS, "b", ndarray(Array(n_points + 1, 1))).err = "NotMatching"

\* C23: two ActiveArrayInfo compare equal if and only if their names are
\* equal and their associations are equal, for every pair of a name (absent
\* included) and an association of POINT, CELL, NONE.
C23_EqualIffNameAndAssociationEqual ==
    /\ \A self \in Infos, other \in Infos :
           ActiveArrayInfo_eq(self, other)
               <=> (self.name = other.name /\ self.association = other.association)
    /\ compared.done
           => (compared.result
                 <=> /\ compared.self.name = compared.other.name
                     /\ compared.self.association = compared.other.association)

\* Two infos of the same name and of different associations were compared
\* and found different.
C23_Witness ==
    /\ compared.done
    /\ ~compared.result
    /\ compared.self.name = compared.other.name
    /\ compared.self.name # None
    /\ compared.self.association = CELL
    /\ compared.other.association = NONE

\* C25: add_background_layer raises the number of layers of the render
\* window by exactly one on its first call and does nothing on every later
\* call: after n >= 1 calls the number of layers is the one before the first
\* call plus one.
C25_BackgroundLayerAddedOnce ==
    /\ ~render_window.had_background_layer
           => \A n \in 1..MaxCalls :
                  /\ add_background_layers(render_window, n).n_layers
                         = render_window.n_layers + 1
                  /\ add_background_layers(render_window, n)
                         = add_background_layer(render_window)
    /\ render_window.had_background_layer
           => \A n \in 1..MaxCalls :
                  add_background_layers(render_window, n) = render_window

\* The background layer was added to a window whose layers the caller had
\* set, and a further call leaves the window alone.
C25_Witness ==
    /\ render_window.had_background_layer
    /\ render_window.n_layers = 3
    /\ add_background_layer(render_window) = render_window

\* C29: copy_meta_from(source) sets the recorded active-scalars and
\* active-vectors info of the target to the values the getters of the source
\* return and replaces the textures of the target by copies of those of the
\* source; it leaves the recorded active-tensors info and the last-active
\* scalars name of the target unchanged, and leaves the source as its own
\* two getters would have left it.
C29_CopyMetaFromCopiesInfosAndTextures ==
    \A ido \in Sources :
        LET r == copy_meta_from(DS, ido)
            scalars == active_scalars_info(ido)
            vectors == active_vectors_info(scalars)
        IN /\ r.self.ti = active_tensors_info_
           /\ r.self.last = last_active_scalars_name_
           /\ r.ido = [vectors EXCEPT !.err = OK]
           /\ r.err = OK
                => /\ r.self.si = scalars.si
                   /\ r.self.vi = vectors.vi
                   /\ DOMAIN r.self.tex = DOMAIN ido.tex
                   /\ \A name \in DOMAIN ido.tex :
                          /\ r.self.tex[name].image = ido.tex[name].image
                          /\ r.self.tex[name] # ido.tex[name]

\* The target, with its own arrays, active tensors, last-active name and
\* texture, takes from a source the info of arrays it does not hold and the
\* copies of two textures.
C29_Witness ==
    /\ active_tensors_info_.name # None
    /\ last_active_scalars_name_ # None
    /\ active_scalars_info_ # ActiveArrayInfo(CELL, "b")
    /\ DOMAIN textures = {"t"}
    /\ \E ido \in Sources :
           LET r == copy_meta_from(DS, ido)
           IN /\ ido.si = ActiveArrayInfo(CELL, "b")
              /\ r.err = OK
              /\ r.self.si = ActiveArrayInfo(CELL, "b")
              /\ DOMAIN r.self.tex = {"t", "u"}
              /\ r.self.tex["u"] = Texture_copy(Texture("earth"))

====
